---- MODULE Spec2Model ----
(***************************************************************************)
(* GSNAuth (src/src/gsn-auth.ts): the token authority of the GSN           *)
(* connector.  One Authority instance is modelled: its configuration, its  *)
(* two caches (issuedTokens, revokedTokens) and the wall clock it reads    *)
(* through Date.now().                                                     *)
(*                                                                         *)
(* Strings are sequences of characters.  A character is a record:          *)
(*   [ch |-> "."]                       the separator                      *)
(*   [ch |-> "x"]                       some other character               *)
(*   [ch |-> "b64", text |-> t]         the base64url text of the bytes t, *)
(*                                      kept as one unit                   *)
(*   [ch |-> "mac", i, key, msg]        the i-th character of the          *)
(*                                      base64url HMAC-SHA256 digest of    *)
(*                                      msg under key (a perfect MAC: two  *)
(*                                      digests agree only when key and    *)
(*                                      msg agree)                         *)
(* JavaScript values are tagged records, so that an absent or mistyped     *)
(* field of a decoded payload is a value like any other.                   *)
(***************************************************************************)
EXTENDS Integers, Sequences, FiniteSets, TLC

VARIABLES
    secretKey,      \* GSNAuth.secretKey
    tokenExpiry,    \* GSNAuth.tokenExpiry, in seconds
    allowedAgents,  \* GSNAuth.allowedAgents : array of agent ids
    issuedTokens,   \* GSNAuth.issuedTokens : bearer string -> AuthToken
    revokedTokens,  \* GSNAuth.revokedTokens : set of bearer strings
    now,            \* the value Date.now() returns
    everRevoked,    \* history: strings passed to revokeToken so far
    everIssued,     \* history: bearer strings returned by generateToken so far
    peer            \* a second Authority with the same identity, secret and
                    \* tokenExpiry: its allowedAgents, issuedTokens and
                    \* revokedTokens

\* GSNConnector (src/src/index.ts), the modules it owns and the platform
VARIABLES
    config,         \* GSNConnector.config, defaults merged in
    immune,         \* GSNConnector.immune
    apiKey,         \* GSNConnector.apiKey is set
    tier,           \* GSNConnector.tier
    initialized,    \* GSNConnector.initialized
    heartbeatTimer, \* GSNConnector.heartbeatTimer is set
    syncTimer,      \* GSNConnector.syncTimer is set
    lastSyncTime,   \* GSNConnector.lastSyncTime is set
    memory,         \* the GSNMemory: syncWithVault, vaultUrl, autoSync,
                    \* syncInterval (0: undefined, or the handle of an
                    \* interval), intervals (the handles of the intervals
                    \* it has set that are running), contextSnippets :
                    \* id -> ContextSnippet
    tasks,          \* GSNCoordinator.tasks : id -> Task
    taskAssignments, \* GSNCoordinator.taskAssignments : id -> the
                    \* TaskAssignments of that task, oldest first
    insights,       \* GSNInsights.insights : id -> Insight
    request,        \* what the latest operation sent to the platform
    vaultSynced     \* history: the GSNMemory went on to sync with the vault

authVars == <<secretKey, tokenExpiry, allowedAgents, issuedTokens,
              revokedTokens, now, everRevoked, everIssued, peer>>

connectorVars == <<config, immune, apiKey, tier, initialized, heartbeatTimer,
                   syncTimer, lastSyncTime, memory,
                   tasks, taskAssignments, insights, request,
                   vaultSynced>>

\* the modules' own state and the calls in flight
VARIABLES
    uuids,          \* how many ids uuidv4() has returned to the modules
    knowledgeBase,  \* GSNInsights.knowledgeBase : tag -> array of insight ids
    eventListeners, \* eventListeners of the GSNCoordinator and the GSNInsights
    delivered,      \* history: the type of the latest event emitted and
                    \* how often its emission called each
                    \* listener
    awaiting,       \* init() calls that await the answer to their registration
    registers,      \* history: registrations sent since construction or the
                    \* latest dispose()
    disposed        \* history: dispose() has returned and init() was not
                    \* called since

moduleVars == <<uuids, knowledgeBase, eventListeners, delivered, awaiting,
                registers, disposed>>

vars == <<authVars, connectorVars, moduleVars>>

----------------------------------------------------------------------------
(* Bounds *)

\* characters of a signature (43 for a real base64url SHA-256 digest)
SigLen == 2
\* distinct bearer strings generateToken returns in a run
MaxIssued == 1
\* distinct strings revokeToken is called with in a run
MaxRevoked == 1
\* context snippets, tasks and insights a module holds at a time, of each
MaxItems == 2
\* ids uuidv4() returns to the modules in a run
MaxUuids == 3
\* init() calls that await their registration at a time
MaxInits == 2
\* registrations in an eventListeners array at a time
MaxListeners == 2
\* assignments in the history of one task
MaxAssignments == 2

----------------------------------------------------------------------------
(* JavaScript values *)

Undefined == [t |-> "undefined"]
JsNull == [t |-> "null"]
Num(n) == [t |-> "number", n |-> n]
Str(s) == [t |-> "string", s |-> s]
\* a string whose text is the decimal numeral of n
NumStr(n) == [t |-> "string", s |-> "numeral", n |-> n]
\* an object with the four properties a token payload may hold; a property
\* the object lacks reads as undefined
Obj(agentId, scope, issuedAt, expiresAt) ==
    [t |-> "object", agentId |-> agentId, scope |-> scope,
     issuedAt |-> issuedAt, expiresAt |-> expiresAt]

NaN == [nan |-> TRUE]
Finite(n) == [nan |-> FALSE, n |-> n]

\* ToNumber, as the relational operators apply it to their operands
ToNumber(v) ==
    CASE v.t = "number" -> Finite(v.n)
      [] v.t = "null" -> Finite(0)
      [] v.t = "string" /\ v.s = "numeral" -> Finite(v.n)
      [] OTHER -> NaN

\* a < b in JavaScript: false as soon as one side is NaN
JsLess(a, b) ==
    LET x == ToNumber(a)
        y == ToNumber(b)
    IN  IF x.nan \/ y.nan THEN FALSE ELSE x.n < y.n

\* v[key]: throws on null and undefined, is undefined on other primitives
Throws(v) == v.t \in {"null", "undefined"}

Prop(v, key) == IF v.t = "object" THEN v[key] ELSE Undefined

----------------------------------------------------------------------------
(* JSON and base64url *)

InvalidText == [json |-> "invalid"]

\* JSON.stringify of a value: the text of an object lists the members that
\* are not undefined
Stringify(v) ==
    CASE v.t = "object" ->
             [json |-> "object", agentId |-> v.agentId, scope |-> v.scope,
              issuedAt |-> v.issuedAt, expiresAt |-> v.expiresAt]
      [] v.t = "undefined" -> InvalidText
      [] OTHER -> [json |-> "value", v |-> v]

\* JSON.parse of a text: [ok |-> FALSE] when it throws SyntaxError
Parse(text) ==
    CASE text.json = "object" ->
             [ok |-> TRUE,
              v |-> Obj(text.agentId, text.scope, text.issuedAt, text.expiresAt)]
      [] text.json = "value" -> [ok |-> TRUE, v |-> text.v]
      [] OTHER -> [ok |-> FALSE]

Dot == [ch |-> "."]
Other == [ch |-> "x"]

\* Buffer.from(text).toString('base64url')
ToBase64Url(text) == << [ch |-> "b64", text |-> text] >>

\* Buffer.from(s, 'base64url').toString(): never throws; what is not the
\* base64url text of a JSON document decodes to bytes JSON.parse refuses
FromBase64Url(s) ==
    IF Len(s) = 1 /\ s[1].ch = "b64" THEN s[1].text ELSE InvalidText

\* String.prototype.split('.')
RECURSIVE Split(_)
Split(s) ==
    IF \A i \in 1..Len(s) : s[i] # Dot THEN << s >>
    ELSE LET i == CHOOSE j \in 1..Len(s) :
                      s[j] = Dot /\ \A h \in 1..(j - 1) : s[h] # Dot
         IN  << SubSeq(s, 1, i - 1) >> \o Split(SubSeq(s, i + 1, Len(s)))

----------------------------------------------------------------------------
(* GSNAuth: configuration and pure helpers *)

\* the AgentIdentity handed to the constructor
agentIdentity == [id |-> "agent-A"]

Scopes == {"read", "write", "admin"}

\* tokenExpiry when the option is absent or falsy
DefaultExpiry == 3600

\* what uuidv4() returns: a value no caller supplies
Uuid == "uuid-1"

\* options.secretKey: "" stands for an absent or empty option
SecretOptions == {"", "S1"}
\* options.tokenExpiry: 0 stands for an absent or zero option
ExpiryOptions == {0, 1, -1}

\* options.allowedAgents: absent, or an array
NoList == [given |-> FALSE]
List(agents) == [given |-> TRUE, agents |-> agents]

\* constructor: x || d takes d for every falsy x (an array, even an empty
\* one, is not falsy)
constructor(options) ==
    [secretKey |-> IF options.secretKey = "" THEN Uuid ELSE options.secretKey,
     tokenExpiry |-> IF options.tokenExpiry = 0 THEN DefaultExpiry
                     ELSE options.tokenExpiry,
     allowedAgents |-> IF options.allowedAgents.given
                       THEN options.allowedAgents.agents
                       ELSE << >>]

\* createHmac('sha256', key).update(payload).digest('base64url')
Hmac(key, payload) ==
    [i \in 1..SigLen |-> [ch |-> "mac", i |-> i, key |-> key, msg |-> payload]]

signPayload(payload) == Hmac(secretKey, payload)

\* variant: the accumulator is combined with &= and so stays zero
XorAccAnd(expected, signature) == 0

\* variant: the loop stops one character early
XorAccShort(expected, signature) ==
    IF \A i \in 1..(Len(expected) - 1) : expected[i] = signature[i] THEN 0 ELSE 1

\* the accumulator of the constant-time loop: zero iff every position agrees
XorAcc(expected, signature) ==
    IF \A i \in 1..Len(expected) : expected[i] = signature[i] THEN 0 ELSE 1

verifyPayload(payload, signature) ==
    LET expected == signPayload(payload)
    IN  IF Len(expected) # Len(signature) THEN FALSE
        ELSE XorAcc(expected, signature) = 0

\* variant: the upper end of the window is excluded (now >= expiresAt)
isTokenExpiredExclusive(issuedAt, expiresAt) ==
    JsLess(Num(now), issuedAt) \/ ~JsLess(Num(now), expiresAt)

\* variant: only the lower end of the window is checked
isTokenExpiredLowerOnly(issuedAt, expiresAt) == JsLess(Num(now), issuedAt)

\* isTokenExpired, on the two timestamps it reads
isTokenExpired(issuedAt, expiresAt) ==
    JsLess(Num(now), issuedAt) \/ JsLess(expiresAt, Num(now))

\* the token generateToken builds from its two clock readings t1 <= t2
TokenData(agentId, scope, t1, t2, expiry) ==
    Obj(Str(agentId), Str(scope), Num(t1), Num(t2 + expiry * 1000))

BearerString(key, tokenData) ==
    LET payload == ToBase64Url(Stringify(tokenData))
    IN  payload \o << Dot >> \o Hmac(key, payload)

\* variant: the Credential is stamped with the second clock reading
MintTokenLateStamp(agentId, key, scope, t1, t2, expiry) ==
    LET tokenData == TokenData(agentId, scope, t1, t2, expiry)
    IN  [token |-> BearerString(key, tokenData),
         agentId |-> Str(agentId),
         issuedAt |-> Num(t2),
         expiresAt |-> Prop(tokenData, "expiresAt"),
         scope |-> Str(scope)]

MintToken(agentId, key, scope, t1, t2, expiry) ==
    LET tokenData == TokenData(agentId, scope, t1, t2, expiry)
    IN  [token |-> BearerString(key, tokenData),
         agentId |-> Str(agentId),
         issuedAt |-> Prop(tokenData, "issuedAt"),
         expiresAt |-> Prop(tokenData, "expiresAt"),
         scope |-> Str(scope)]

\* variant: the issued cache is consulted before the revocation set
validateTokenCacheFirst(tokenString) ==
    IF tokenString \in DOMAIN issuedTokens
    THEN LET existingToken == issuedTokens[tokenString]
         IN  IF isTokenExpired(existingToken.issuedAt, existingToken.expiresAt)
             THEN JsNull
             ELSE existingToken
    ELSE IF tokenString \in revokedTokens THEN JsNull
    ELSE LET parts == Split(tokenString)
         IN  IF Len(parts) # 2 THEN JsNull
             ELSE LET payload == parts[1]
                      signature == parts[2]
                      parsed == Parse(FromBase64Url(payload))
                  IN  IF ~verifyPayload(payload, signature) THEN JsNull
                      ELSE IF ~parsed.ok THEN JsNull
                      ELSE IF Throws(parsed.v) THEN JsNull
                      ELSE IF isTokenExpired(Prop(parsed.v, "issuedAt"),
                                             Prop(parsed.v, "expiresAt"))
                      THEN JsNull
                      ELSE [token |-> tokenString,
                            agentId |-> Prop(parsed.v, "agentId"),
                            issuedAt |-> Prop(parsed.v, "issuedAt"),
                            expiresAt |-> Prop(parsed.v, "expiresAt"),
                            scope |-> Prop(parsed.v, "scope")]

\* the fields of this Authority that differ from one Authority of the agent
\* to another
this ==
    [allowedAgents |-> allowedAgents, issuedTokens |-> issuedTokens,
     revokedTokens |-> revokedTokens]

\* Array.prototype.includes
includes(array, x) == \E i \in 1..Len(array) : array[i] = x

\* variant: the wildcard is not honoured
isAgentAllowedOnNoWildcard(auth, agentId) ==
    IF Len(auth.allowedAgents) = 0 THEN TRUE
    ELSE includes(auth.allowedAgents, agentId)

\* isAgentAllowed, on the Authority auth
isAgentAllowedOn(auth, agentId) ==
    IF Len(auth.allowedAgents) = 0 THEN TRUE
    ELSE includes(auth.allowedAgents, agentId)
             \/ includes(auth.allowedAgents, "*")

isAgentAllowed(agentId) == isAgentAllowedOn(this, agentId)

\* the standalone verification of validateToken: a string that is neither
\* revoked nor cached
verifyStandalone(tokenString) ==
    LET parts == Split(tokenString)
    IN  IF Len(parts) # 2 THEN JsNull
        ELSE LET payload == parts[1]
                 signature == parts[2]
                 parsed == Parse(FromBase64Url(payload))
             IN  IF ~verifyPayload(payload, signature) THEN JsNull
                 ELSE IF ~parsed.ok THEN JsNull
                 ELSE IF Throws(parsed.v) THEN JsNull
                 ELSE IF isTokenExpired(Prop(parsed.v, "issuedAt"),
                                        Prop(parsed.v, "expiresAt"))
                 THEN JsNull
                 ELSE [token |-> tokenString,
                       agentId |-> Prop(parsed.v, "agentId"),
                       issuedAt |-> Prop(parsed.v, "issuedAt"),
                       expiresAt |-> Prop(parsed.v, "expiresAt"),
                       scope |-> Prop(parsed.v, "scope")]

\* variant: a token of an agent the allow-list excludes is rejected
validateTokenOnAllowed(auth, tokenString) ==
    LET token ==
            IF tokenString \in auth.revokedTokens THEN JsNull
            ELSE IF tokenString \in DOMAIN auth.issuedTokens
            THEN LET existingToken == auth.issuedTokens[tokenString]
                 IN  IF isTokenExpired(existingToken.issuedAt,
                                       existingToken.expiresAt)
                     THEN JsNull
                     ELSE existingToken
            ELSE verifyStandalone(tokenString)
    IN  IF token = JsNull THEN JsNull
        ELSE IF token.agentId.t = "string"
                    /\ ~isAgentAllowedOn(auth, token.agentId.s)
        THEN JsNull
        ELSE token

\* validateToken on the Authority auth: the AuthToken it returns, or JsNull
validateTokenOn(auth, tokenString) ==
    IF tokenString \in auth.revokedTokens THEN JsNull
    ELSE IF tokenString \in DOMAIN auth.issuedTokens
    THEN LET existingToken == auth.issuedTokens[tokenString]
         IN  IF isTokenExpired(existingToken.issuedAt, existingToken.expiresAt)
             THEN JsNull
             ELSE existingToken
    ELSE verifyStandalone(tokenString)

\* validateToken: the AuthToken it returns, or JsNull
validateToken(tokenString) == validateTokenOn(this, tokenString)

\* the effects of the operations on the Authority auth
generateTokenOn(auth, token) ==
    [auth EXCEPT !.issuedTokens = (token.token :> token) @@ @]

revokeTokenOn(auth, tokenString) ==
    [auth EXCEPT
        !.issuedTokens = [s \in DOMAIN @ \ {tokenString} |-> @[s]],
        !.revokedTokens = @ \cup {tokenString}]

cleanupExpiredTokensOn(auth) ==
    [auth EXCEPT
        !.issuedTokens =
            [s \in {k \in DOMAIN @ : ~JsLess(@[k].expiresAt, Num(now))}
                |-> @[s]]]

disposeOn(auth) ==
    [auth EXCEPT !.issuedTokens = << >>, !.revokedTokens = {}]

----------------------------------------------------------------------------
(* The clock and the strings callers present *)

Abs(n) == IF n < 0 THEN -n ELSE n

\* Date.now() is read at four instants: the epoch of the run, the end of a
\* validity window opened there, and one millisecond after each
Instants == {b + j : b \in {0, Abs(tokenExpiry) * 1000}, j \in {0, 1}}

\* secrets of the other Authorities that mint tokens: one shares the local
\* secret, one was constructed with another secret
ForeignSecrets == {secretKey, "S2"}
ForeignAgent == "agent-X"

\* the token another Authority (agent X, secret k, a positive tokenExpiry)
\* mints for scope sc when its clock reads t
ForeignToken(k, sc, t) ==
    MintToken(ForeignAgent, k, sc, t, t, Abs(tokenExpiry))

\* tokens minted by other Authorities at the epoch and a millisecond later
ForeignTokens ==
    {ForeignToken(k, sc, t) : k \in ForeignSecrets, sc \in Scopes, t \in {0, 1}}

ForeignStrings == {tok.token : tok \in ForeignTokens}

\* s with its i-th character replaced by c
ReplaceAt(s, i, c) == [j \in 1..Len(s) |-> IF j = i THEN c ELSE s[j]]

\* the positions of s after its last separator: its signature part
SignaturePositions(s) ==
    {i \in 1..Len(s) : \A j \in i..Len(s) : s[j] # Dot}

\* characters a tamperer may write: the separator, a character no digest
\* holds, a character of another digest, and the characters of the
\* signature itself
TamperChars(s) ==
    {Dot, Other, Hmac("S2", << >>)[1]}
        \cup {s[j] : j \in SignaturePositions(s)}

\* s with one character of its signature part replaced by a different one
Tampered(s) ==
    {ReplaceAt(s, i, c) :
        i \in SignaturePositions(s), c \in TamperChars(s)} \ {s}

\* payload + "." + digest of the payload under key
Signed(key, payload) == payload \o << Dot >> \o Hmac(key, payload)

\* a well-formed token object, for the decoded payloads below
SampleData == TokenData(ForeignAgent, "read", 0, 0, Abs(tokenExpiry))

RequiredFields == {"agentId", "scope", "issuedAt", "expiresAt"}

\* v of another type than the field f requires
Mistyped(f) ==
    CASE f = "agentId" -> Num(7)
      [] f = "scope" -> Num(7)
      [] f = "issuedAt" -> Str("soon")
      [] f = "expiresAt" -> Str("never")

Without(data, f) == [data EXCEPT ![f] = Undefined]

With(data, f, v) == [data EXCEPT ![f] = v]

\* objects that lack a required field or hold a mistyped one
DefectiveData ==
    {Without(SampleData, f) : f \in RequiredFields}
        \cup {With(SampleData, f, Mistyped(f)) : f \in RequiredFields}

\* texts that are no JSON, or JSON of null or of a non-object
NonObjectTexts == {InvalidText, Stringify(JsNull), Stringify(Num(5))}

\* strings with a payload no Authority mints, signed under the local secret
\* or under another one
CraftedStrings ==
    {Signed(k, ToBase64Url(t)) :
        k \in {secretKey, "S2"},
        t \in {Stringify(d) : d \in DefectiveData} \cup NonObjectTexts}

\* strings that do not split into exactly two parts, or whose signature
\* part has another length than a digest
MisshapenStrings ==
    LET good == Signed(secretKey, ToBase64Url(Stringify(SampleData)))
    IN  {<< >>, << Dot >>, << Other >>,
         SubSeq(good, 1, 1),
         SubSeq(good, 1, 2),
         SubSeq(good, 1, Len(good) - 1),
         good \o << Other >>,
         good \o << Dot, Other >>}

KnownStrings == DOMAIN issuedTokens \cup revokedTokens \cup everIssued

\* the strings revokeToken is called with: those the Authority has handled
\* and one another Authority minted
RevokeInputs ==
    KnownStrings \cup {ForeignToken(secretKey, "read", 0).token}

\* minted strings validateToken is called with
MintedInputs == KnownStrings \cup ForeignStrings

\* the minted strings a tamperer starts from
TamperSeeds ==
    KnownStrings \cup {ForeignToken(k, "read", 0).token : k \in ForeignSecrets}

\* strings no Authority mints
ForgedInputs ==
    UNION {Tampered(s) : s \in TamperSeeds}
        \cup CraftedStrings \cup MisshapenStrings

----------------------------------------------------------------------------
(* The operations.  What a call returns is an operator of the state it is *)
(* made in: TokenFor for generateToken, validateToken for validateToken.  *)

\* GSNConnector's constructor.  The flags of a ConnectorConfig; options
\* gives a value to those the caller supplies
Flags == {"autoRegister", "heartbeatEnabled", "autoSync", "immune"}

ConnectorDefaults ==
    [autoRegister |-> TRUE, heartbeatEnabled |-> TRUE, autoSync |-> TRUE,
     immune |-> FALSE]

ConnectorOptions == UNION {[fs -> BOOLEAN] : fs \in SUBSET Flags}

\* { ...defaults, ...config }
MergedConfig(options) ==
    [f \in Flags |->
        IF f \in DOMAIN options THEN options[f] ELSE ConnectorDefaults[f]]

\* no request was sent
NoRequest == [path |-> "none"]

\* the callbacks registered as listeners: one that only takes the event, one
\* that calls its own unregister handle when it is called, one that throws,
\* and one that calls the unregister handle of the first
Listeners == {"plain", "once", "throwing", "remover"}

\* the connector, its modules and the platform after new GSNConnector(options)
ConnectorConstructed(options) ==
    LET merged == MergedConfig(options)
    IN  /\ config = merged
        /\ immune = merged["immune"]
        /\ apiKey = FALSE
        /\ tier = "guest"
        /\ initialized = FALSE
        /\ heartbeatTimer = FALSE
        /\ syncTimer = FALSE
        /\ lastSyncTime = FALSE
        /\ memory =
               [syncWithVault |-> ~merged["immune"],
                vaultUrl |-> ~merged["immune"],
                autoSync |-> ~merged["immune"]
                                /\ ~("autoSync" \in DOMAIN options
                                         /\ options["autoSync"] = FALSE),
                syncInterval |-> 0,
                intervals |-> {},
                contextSnippets |-> << >>]
        /\ tasks = << >>
        /\ taskAssignments = << >>
        /\ insights = << >>
        /\ request = NoRequest
        /\ vaultSynced = FALSE
        /\ uuids = 0
        /\ knowledgeBase = << >>
        /\ eventListeners = [coordinator |-> << >>, insights |-> << >>]
        /\ delivered = [type |-> "none",
                        calls |-> [listener \in Listeners |-> 0]]
        /\ awaiting = 0
        /\ registers = 0
        /\ disposed = FALSE

\* the Authority after new GSNAuth(identity, options), and a second one
\* constructed with the allow-list peerList
AuthConstructed(options, peerList) ==
    LET cfg == constructor(options)
    IN  /\ secretKey = cfg.secretKey
        /\ tokenExpiry = cfg.tokenExpiry
        /\ allowedAgents = cfg.allowedAgents
        /\ issuedTokens = << >>
        /\ revokedTokens = {}
        /\ now = 0
        /\ everRevoked = {}
        /\ everIssued = {}
        /\ peer =
               [allowedAgents |->
                    constructor([options EXCEPT !.allowedAgents = peerList])
                        .allowedAgents,
                issuedTokens |-> << >>,
                revokedTokens |-> {}]

\* an Authority constructed with a secret and a tokenExpiry option and no
\* allow-list, beside a connector constructed without options
Init ==
    /\ \E sk \in SecretOptions, te \in ExpiryOptions :
          AuthConstructed([secretKey |-> sk, tokenExpiry |-> te,
                           allowedAgents |-> NoList], NoList)
    /\ ConnectorConstructed(<< >>)

\* the second reading of Date.now() in generateToken: the clock may have
\* moved on by a millisecond since the first
SecondReadings == {t \in Instants : now <= t /\ t <= now + 1}

\* variant: the token is minted in the name of another agent
TokenForOther(scope, t2) ==
    MintToken(ForeignAgent, secretKey, scope, now, t2, tokenExpiry)

\* the AuthToken generateToken(scope) returns when its second clock reading
\* is t2
TokenFor(scope, t2) ==
    MintToken(agentIdentity.id, secretKey, scope, now, t2, tokenExpiry)

generateToken(scope, t2) ==
    LET token == TokenFor(scope, t2)
    IN  /\ t2 \in SecondReadings
        /\ Cardinality(everIssued \cup {token.token}) <= MaxIssued
        /\ issuedTokens' = (token.token :> token) @@ issuedTokens
        /\ now' = t2
        /\ everIssued' = everIssued \cup {token.token}
        /\ UNCHANGED <<connectorVars, moduleVars>>
        /\ UNCHANGED <<secretKey, tokenExpiry, allowedAgents, revokedTokens,
                       everRevoked>>

\* getCurrentToken(scope) returns generateToken(scope)
getCurrentToken(scope, t2) == generateToken(scope, t2)

\* variant: a string accepted on the standalone path is put into the issued
\* cache
validateTokenCallCaching(tokenString) ==
    /\ issuedTokens' =
           IF tokenString \notin DOMAIN issuedTokens
                  /\ validateToken(tokenString) # JsNull
           THEN (tokenString :> validateToken(tokenString)) @@ issuedTokens
           ELSE issuedTokens
    /\ UNCHANGED <<connectorVars, moduleVars>>
    /\ UNCHANGED <<secretKey, tokenExpiry, allowedAgents, revokedTokens, now,
                   everRevoked, everIssued, peer>>

\* validateToken changes nothing; it returns validateToken(tokenString)
validateTokenCall(tokenString) == UNCHANGED vars

\* variant: revoking a string that is already revoked takes the revocation
\* back
revokeTokenToggle(tokenString) ==
    /\ Cardinality(everRevoked \cup {tokenString}) <= MaxRevoked
    /\ issuedTokens' =
           [s \in DOMAIN issuedTokens \ {tokenString} |-> issuedTokens[s]]
    /\ revokedTokens' =
           IF tokenString \in revokedTokens
           THEN revokedTokens \ {tokenString}
           ELSE revokedTokens \cup {tokenString}
    /\ everRevoked' = everRevoked \cup {tokenString}
    /\ UNCHANGED <<connectorVars, moduleVars>>
    /\ UNCHANGED <<secretKey, tokenExpiry, allowedAgents, now, everIssued>>

\* variant: only a string found in issuedTokens is recorded as revoked
revokeTokenIssuedOnly(tokenString) ==
    /\ Cardinality(everRevoked \cup {tokenString}) <= MaxRevoked
    /\ issuedTokens' =
           [s \in DOMAIN issuedTokens \ {tokenString} |-> issuedTokens[s]]
    /\ revokedTokens' =
           IF tokenString \in DOMAIN issuedTokens
           THEN revokedTokens \cup {tokenString}
           ELSE revokedTokens
    /\ everRevoked' = everRevoked \cup {tokenString}
    /\ UNCHANGED <<connectorVars, moduleVars>>
    /\ UNCHANGED <<secretKey, tokenExpiry, allowedAgents, now, everIssued>>

\* what revokeToken returns
revokeTokenReturn(tokenString) == TRUE

revokeToken(tokenString) ==
    /\ Cardinality(everRevoked \cup {tokenString}) <= MaxRevoked
    /\ issuedTokens' =
           [s \in DOMAIN issuedTokens \ {tokenString} |-> issuedTokens[s]]
    /\ revokedTokens' = revokedTokens \cup {tokenString}
    /\ everRevoked' = everRevoked \cup {tokenString}
    /\ UNCHANGED <<connectorVars, moduleVars>>
    /\ UNCHANGED <<secretKey, tokenExpiry, allowedAgents, now, everIssued>>

\* variant: an entry is removed as soon as the clock reaches its expiresAt
cleanupExpiredTokensInclusive ==
    /\ issuedTokens' =
           [s \in {k \in DOMAIN issuedTokens :
                      JsLess(Num(now), issuedTokens[k].expiresAt)}
               |-> issuedTokens[s]]
    /\ UNCHANGED <<connectorVars, moduleVars>>
    /\ UNCHANGED <<secretKey, tokenExpiry, allowedAgents, revokedTokens, now,
                   everRevoked, everIssued>>

cleanupExpiredTokens ==
    /\ issuedTokens' =
           [s \in {k \in DOMAIN issuedTokens :
                      ~JsLess(issuedTokens[k].expiresAt, Num(now))}
               |-> issuedTokens[s]]
    /\ UNCHANGED <<connectorVars, moduleVars>>
    /\ UNCHANGED <<secretKey, tokenExpiry, allowedAgents, revokedTokens, now,
                   everRevoked, everIssued>>

dispose ==
    /\ issuedTokens' = << >>
    /\ revokedTokens' = {}
    /\ UNCHANGED <<connectorVars, moduleVars>>
    /\ UNCHANGED <<secretKey, tokenExpiry, allowedAgents, now, everRevoked,
                   everIssued>>

\* the wall clock moves forward between calls
ClockAdvance ==
    /\ \E t \in Instants : t > now /\ now' = t
    /\ UNCHANGED <<connectorVars, moduleVars>>
    /\ UNCHANGED <<secretKey, tokenExpiry, allowedAgents, peer, issuedTokens,
                   revokedTokens, everRevoked, everIssued>>

\* the wall clock is set back (Date.now() is not monotonic)
ClockSetBack ==
    /\ \E t \in Instants : t < now /\ now' = t
    /\ UNCHANGED <<connectorVars, moduleVars>>
    /\ UNCHANGED <<secretKey, tokenExpiry, allowedAgents, peer, issuedTokens,
                   revokedTokens, everRevoked, everIssued>>

\* the calls made on this Authority alone
Generate ==
    /\ \E scope \in Scopes, t2 \in Instants : getCurrentToken(scope, t2)
    /\ UNCHANGED peer

Validate == \E s \in MintedInputs : validateTokenCall(s)
ValidateForged == \E s \in ForgedInputs : validateTokenCall(s)

Revoke ==
    /\ \E s \in RevokeInputs : revokeToken(s)
    /\ UNCHANGED peer

Cleanup == cleanupExpiredTokens /\ UNCHANGED peer

Dispose == dispose /\ UNCHANGED peer

Next ==
    \/ Generate
    \/ Validate
    \/ ValidateForged
    \/ Revoke
    \/ Cleanup
    \/ Dispose
    \/ ClockAdvance
    \/ ClockSetBack

Spec == Init /\ [][Next]_vars

\* an Authority that is never disposed
NextLive ==
    \/ Generate
    \/ Validate
    \/ Revoke
    \/ Cleanup
    \/ ClockAdvance
    \/ ClockSetBack

SpecLive == Init /\ [][NextLive]_vars

\* an Authority on which nothing is revoked
NextIssue ==
    \/ Generate
    \/ Validate
    \/ ValidateForged
    \/ Cleanup
    \/ ClockAdvance
    \/ ClockSetBack

SpecIssue == Init /\ [][NextIssue]_vars

\* an Authority constructed without options, as GSNConnector constructs its
\* own
NoAuthOptions ==
    [secretKey |-> "", tokenExpiry |-> 0, allowedAgents |-> NoList]

InitDefault ==
    /\ AuthConstructed(NoAuthOptions, NoList)
    /\ ConnectorConstructed(<< >>)

\* the whole life of that Authority, presented with minted strings
NextLife ==
    \/ Generate
    \/ Validate
    \/ Revoke
    \/ Cleanup
    \/ Dispose
    \/ ClockAdvance
    \/ ClockSetBack

SpecLife == InitDefault /\ [][NextLife]_vars

\* the agent ids isAgentAllowed is asked about
AgentIds == {agentIdentity.id, ForeignAgent, "agent-B", "*"}

\* the allow-lists two Authorities of the agent are constructed with
AllowPairs ==
    {<<NoList, List(<<"agent-B">>)>>,
     <<List(<<agentIdentity.id>>), NoList>>,
     <<List(<<"*">>), List(<<"agent-B">>)>>,
     <<List(<<"agent-B", ForeignAgent>>), List(<<agentIdentity.id>>)>>}

InitAllow ==
    /\ \E pair \in AllowPairs :
          AuthConstructed([NoAuthOptions EXCEPT !.allowedAgents = pair[1]],
                          pair[2])
    /\ ConnectorConstructed(<< >>)

\* isAgentAllowed changes nothing; it returns isAgentAllowed(agentId)
isAgentAllowedCall(agentId) == UNCHANGED vars

AskAllowed == \E agentId \in AgentIds : isAgentAllowedCall(agentId)

\* the same call made on both Authorities, which read the same clock
PairGenerate ==
    \E scope \in Scopes, t2 \in Instants :
        /\ getCurrentToken(scope, t2)
        /\ peer' = generateTokenOn(peer, TokenFor(scope, t2))

PairRevoke ==
    \E s \in RevokeInputs :
        /\ revokeToken(s)
        /\ peer' = revokeTokenOn(peer, s)

PairCleanup == cleanupExpiredTokens /\ peer' = cleanupExpiredTokensOn(peer)

PairDispose == dispose /\ peer' = disposeOn(peer)

NextAllow ==
    \/ PairGenerate
    \/ Validate
    \/ AskAllowed
    \/ PairRevoke
    \/ PairCleanup
    \/ PairDispose
    \/ ClockAdvance

SpecAllow == InitAllow /\ [][NextAllow]_vars

----------------------------------------------------------------------------
(* GSNConnector, GSNMemory, GSNCoordinator, GSNInsights and the platform   *)
(* client.  request is what the latest step handed to                      *)
(* GSNPlatformClient.post, or NoRequest.  Of a ContextSnippet, a Task and  *)
(* an Insight the fields the operations below read are kept.               *)

InitConnector ==
    /\ AuthConstructed(NoAuthOptions, NoList)
    /\ \E options \in ConnectorOptions : ConnectorConstructed(options)

\* variant: uuidv4() returns the id it returned last
uuidv4Repeated == IF uuids = 0 THEN 1 ELSE uuids

\* uuidv4(): an id it never returned before
uuidv4 == uuids + 1

Ids == 1..MaxUuids

\* Map.prototype.set and Map.prototype.delete
MapSet(map, key, value) == (key :> value) @@ map

MapDelete(map, key) == [k \in DOMAIN map \ {key} |-> map[k]]

\* { ...existing, ...updates }
Merge(existing, updates) ==
    [f \in DOMAIN existing \cup DOMAIN updates |->
        IF f \in DOMAIN updates THEN updates[f] ELSE existing[f]]

\* how a fetch ends: the request fails on the network, or the platform
\* answers with an HTTP error status, with a 2xx status and a body that is
\* no JSON, or with a 2xx status and a JSON body
Outcomes == {"network-error", "http-error", "not-json", "json"}

\* how the promise GSNPlatformClient.post (and get) returns settles:
\* response.json() is returned without await, so its rejection is not
\* caught
post(outcome) ==
    CASE outcome = "network-error" ->
             [settled |-> "resolved",
              value |-> [success |-> FALSE, error |-> "Network error"]]
      [] outcome = "http-error" ->
             [settled |-> "resolved",
              value |-> [success |-> FALSE, error |-> "HTTP"]]
      [] outcome = "not-json" -> [settled |-> "rejected"]
      [] outcome = "json" ->
             [settled |-> "resolved", value |-> [success |-> TRUE]]

\* what the platform answers to a registration: no success, or success with
\* or without an API key
Registrations ==
    {[success |-> FALSE, apiKey |-> FALSE],
     [success |-> TRUE, apiKey |-> TRUE],
     [success |-> TRUE, apiKey |-> FALSE]}

\* init() up to its first await: it returns at once when already
\* initialized; with autoRegister it sends the registration and awaits the
\* answer; without, it runs to its end: the timers are started unless immune
init ==
    /\ IF initialized
       THEN /\ request' = NoRequest
            /\ UNCHANGED <<apiKey, tier, initialized, heartbeatTimer,
                           syncTimer, awaiting, registers>>
       ELSE IF config["autoRegister"]
       THEN /\ awaiting < MaxInits
            /\ request' =
                   [path |-> "/api/connector/register",
                    agentId |-> agentIdentity.id]
            /\ awaiting' = awaiting + 1
            /\ registers' = registers + 1
            /\ UNCHANGED <<apiKey, tier, initialized, heartbeatTimer,
                           syncTimer>>
       ELSE /\ request' = NoRequest
            /\ heartbeatTimer' =
                   (heartbeatTimer \/ (config["heartbeatEnabled"] /\ ~immune))
            /\ syncTimer' = (syncTimer \/ (config["autoSync"] /\ ~immune))
            /\ initialized' = TRUE
            /\ UNCHANGED <<apiKey, tier, awaiting, registers>>
    /\ disposed' = FALSE
    /\ UNCHANGED <<config, immune, lastSyncTime, memory,
                   tasks, taskAssignments, insights,
                   vaultSynced>>
    /\ UNCHANGED <<uuids, knowledgeBase, eventListeners, delivered>>
    /\ UNCHANGED authVars

\* an init() that awaited its registration goes on with the answer, or with
\* none when the request failed
initResume ==
    /\ awaiting > 0
    /\ awaiting' = awaiting - 1
    /\ \E registration \in Registrations :
           IF registration.success
           THEN /\ apiKey' = registration.apiKey
                /\ tier' = "member"
           ELSE UNCHANGED <<apiKey, tier>>
    /\ heartbeatTimer' =
           (heartbeatTimer \/ (config["heartbeatEnabled"] /\ ~immune))
    /\ syncTimer' = (syncTimer \/ (config["autoSync"] /\ ~immune))
    /\ initialized' = TRUE
    /\ request' = NoRequest
    /\ UNCHANGED <<config, immune, lastSyncTime, memory,
                   tasks, taskAssignments, insights,
                   vaultSynced>>
    /\ UNCHANGED <<uuids, knowledgeBase, eventListeners, delivered, registers,
                   disposed>>
    /\ UNCHANGED authVars

\* variant: an immune connector pushes like any other
syncAlways(outcome) ==
    /\ request' =
           [path |-> "/api/connector/sync",
            snippets |-> memory.contextSnippets,
            tasks |-> tasks,
            insights |-> insights,
            pullSince |-> lastSyncTime,
            answer |-> post(outcome)]
    /\ lastSyncTime' = (lastSyncTime \/ post(outcome).settled = "resolved")
    /\ UNCHANGED <<config, immune, apiKey, tier, initialized, heartbeatTimer,
                   syncTimer, memory,
                   tasks, taskAssignments, insights, vaultSynced>>
    /\ UNCHANGED moduleVars
    /\ UNCHANGED authVars

\* sync(), the platform's answer included: an immune connector sends empty
\* lists and keeps lastSyncTime; another one sets lastSyncTime once the
\* promise of platform.sync has resolved, and keeps it when the promise
\* rejects
sync(outcome) ==
    IF immune
    THEN /\ request' =
                [path |-> "/api/connector/sync",
                 snippets |-> << >>,
                 tasks |-> << >>,
                 insights |-> << >>,
                 pullSince |-> lastSyncTime,
                 answer |-> post(outcome)]
         /\ UNCHANGED <<config, immune, apiKey, tier, initialized,
                        heartbeatTimer, syncTimer, lastSyncTime, memory,
                        tasks, taskAssignments,
                        insights, vaultSynced>>
         /\ UNCHANGED moduleVars
         /\ UNCHANGED authVars
    ELSE /\ request' =
                [path |-> "/api/connector/sync",
                 snippets |-> memory.contextSnippets,
                 tasks |-> tasks,
                 insights |-> insights,
                 pullSince |-> lastSyncTime,
                 answer |-> post(outcome)]
         /\ lastSyncTime' =
                (lastSyncTime \/ post(outcome).settled = "resolved")
         /\ UNCHANGED <<config, immune, apiKey, tier, initialized,
                        heartbeatTimer, syncTimer, memory,
                        tasks, taskAssignments, insights,
                        vaultSynced>>
         /\ UNCHANGED moduleVars
         /\ UNCHANGED authVars

\* heartbeat(): an immune connector answers by itself
heartbeat ==
    /\ request' =
           IF immune THEN NoRequest
           ELSE [path |-> "/api/connector/heartbeat",
                 snippetCount |-> Cardinality(DOMAIN memory.contextSnippets),
                 taskCount |-> Cardinality(DOMAIN tasks),
                 insightCount |-> Cardinality(DOMAIN insights)]
    /\ UNCHANGED <<config, immune, apiKey, tier, initialized, heartbeatTimer,
                   syncTimer, lastSyncTime, memory,
                   tasks, taskAssignments, insights,
                   vaultSynced>>
    /\ UNCHANGED moduleVars
    /\ UNCHANGED authVars

\* the interval callbacks of startHeartbeat and startAutoSync
HeartbeatTick == heartbeatTimer /\ heartbeat

SyncTick(outcome) == syncTimer /\ sync(outcome)

\* sendMessage(channelId, content): handed to the platform as given; the
\* caller gets the promise of the platform client
sendMessage(outcome) ==
    /\ request' = [path |-> "/api/messages/send", answer |-> post(outcome)]
    /\ UNCHANGED <<config, immune, apiKey, tier, initialized, heartbeatTimer,
                   syncTimer, lastSyncTime, memory,
                   tasks, taskAssignments, insights,
                   vaultSynced>>
    /\ UNCHANGED moduleVars
    /\ UNCHANGED authVars

----------------------------------------------------------------------------
(* GSNMemory *)

Contents == {"c1", "c2"}

\* the ContextSnippet addSnippet builds
Snippet(id, content) ==
    [id |-> id, agentId |-> agentIdentity.id, content |-> content]

\* memory.getSnippet(id)
getSnippet(id) ==
    IF id \in DOMAIN memory.contextSnippets
    THEN memory.contextSnippets[id]
    ELSE Undefined

\* memory.addSnippet(content): the snippet it stores is the one it returns
addSnippet(content) ==
    LET snippet == Snippet(uuidv4, content)
    IN  /\ uuids < MaxUuids
        /\ Cardinality(DOMAIN memory.contextSnippets) < MaxItems
        /\ memory' =
               [memory EXCEPT
                   !.contextSnippets = MapSet(@, snippet.id, snippet)]
        /\ uuids' = uuids + 1
        /\ request' = NoRequest
        /\ UNCHANGED <<config, immune, apiKey, tier, initialized,
                       heartbeatTimer, syncTimer, lastSyncTime,
                       tasks, taskAssignments,
                       insights, vaultSynced>>
        /\ UNCHANGED <<knowledgeBase, eventListeners, delivered, awaiting,
                       registers, disposed>>
        /\ UNCHANGED authVars

\* the updates updateSnippet is called with
SnippetUpdates == {[content |-> content] : content \in Contents}

\* memory.updateSnippet(id, updates): null for an id the memory does not hold
updateSnippet(id, updates) ==
    /\ memory' =
           IF id \in DOMAIN memory.contextSnippets
           THEN [memory EXCEPT
                    !.contextSnippets = MapSet(@, id, Merge(@[id], updates))]
           ELSE memory
    /\ request' = NoRequest
    /\ UNCHANGED <<config, immune, apiKey, tier, initialized, heartbeatTimer,
                   syncTimer, lastSyncTime,
                   tasks, taskAssignments, insights, vaultSynced>>
    /\ UNCHANGED moduleVars
    /\ UNCHANGED authVars

\* memory.deleteSnippet(id)
deleteSnippet(id) ==
    /\ memory' = [memory EXCEPT !.contextSnippets = MapDelete(@, id)]
    /\ request' = NoRequest
    /\ UNCHANGED <<config, immune, apiKey, tier, initialized, heartbeatTimer,
                   syncTimer, lastSyncTime,
                   tasks, taskAssignments, insights, vaultSynced>>
    /\ UNCHANGED moduleVars
    /\ UNCHANGED authVars

\* clearInterval(handle): the interval of that handle, if it runs, stops
clearInterval(running, handle) == running \ {handle}

\* setInterval(): the handle of a new running interval
setInterval(running) ==
    CHOOSE handle \in 1..(Cardinality(running) + 1) : handle \notin running

\* variant: startAutoSync() sets its interval without clearing the one it
\* holds
startAutoSyncKeeping ==
    /\ memory' =
           IF memory.autoSync /\ memory.syncWithVault
           THEN [memory EXCEPT
                    !.syncInterval = setInterval(memory.intervals),
                    !.intervals = memory.intervals
                                      \cup {setInterval(memory.intervals)}]
           ELSE memory
    /\ request' = NoRequest
    /\ UNCHANGED <<config, immune, apiKey, tier, initialized, heartbeatTimer,
                   syncTimer, lastSyncTime,
                   tasks, taskAssignments, insights, vaultSynced>>
    /\ UNCHANGED moduleVars
    /\ UNCHANGED authVars

\* memory.startAutoSync(): the interval it holds is cleared, and a new one is
\* set only when autoSync and syncWithVault are on
startAutoSync ==
    /\ LET running == IF memory.syncInterval # 0
                      THEN clearInterval(memory.intervals,
                                         memory.syncInterval)
                      ELSE memory.intervals
       IN  memory' =
               IF memory.autoSync /\ memory.syncWithVault
               THEN [memory EXCEPT
                        !.syncInterval = setInterval(running),
                        !.intervals = running \cup {setInterval(running)}]
               ELSE [memory EXCEPT !.intervals = running]
    /\ request' = NoRequest
    /\ UNCHANGED <<config, immune, apiKey, tier, initialized, heartbeatTimer,
                   syncTimer, lastSyncTime,
                   tasks, taskAssignments, insights, vaultSynced>>
    /\ UNCHANGED moduleVars
    /\ UNCHANGED authVars

\* the GSNMemory after stopAutoSync(): the interval it holds is cleared and
\* syncInterval is undefined
Stopped(m) ==
    IF m.syncInterval # 0
    THEN [m EXCEPT !.intervals = clearInterval(m.intervals, m.syncInterval),
                   !.syncInterval = 0]
    ELSE m

\* memory.stopAutoSync()
stopAutoSync ==
    /\ memory' = Stopped(memory)
    /\ request' = NoRequest
    /\ UNCHANGED <<config, immune, apiKey, tier, initialized, heartbeatTimer,
                   syncTimer, lastSyncTime,
                   tasks, taskAssignments, insights, vaultSynced>>
    /\ UNCHANGED moduleVars
    /\ UNCHANGED authVars

\* memory.syncWithSharedVault(): returns at once unless syncWithVault is on
\* and a vaultUrl is known
syncWithSharedVault ==
    /\ vaultSynced' = (vaultSynced \/ (memory.syncWithVault /\ memory.vaultUrl))
    /\ request' = NoRequest
    /\ UNCHANGED <<config, immune, apiKey, tier, initialized, heartbeatTimer,
                   syncTimer, lastSyncTime, memory,
                   tasks, taskAssignments, insights>>
    /\ UNCHANGED moduleVars
    /\ UNCHANGED authVars

\* the interval callback of memory.startAutoSync
MemoryTick == memory.intervals # {} /\ syncWithSharedVault

----------------------------------------------------------------------------
(* Event listeners of the GSNCoordinator and the GSNInsights *)

\* the handle onCoordinationEvent and onInsightEvent return: splice at the
\* indexOf the listener, when it is in the array
Unregistered(listeners, listener) ==
    IF ~includes(listeners, listener) THEN listeners
    ELSE LET index == CHOOSE i \in 1..Len(listeners) :
                          /\ listeners[i] = listener
                          /\ \A j \in 1..(i - 1) : listeners[j] # listener
         IN  SubSeq(listeners, 1, index - 1)
                 \o SubSeq(listeners, index + 1, Len(listeners))

\* the array after the listener was called with an event; what a listener
\* throws is caught
Called(listeners, listener) ==
    CASE listener = "once" -> Unregistered(listeners, "once")
      [] listener = "remover" -> Unregistered(listeners, "plain")
      [] OTHER -> listeners

\* Array.prototype.forEach on the array itself, from position k on: the
\* length is read before the first call, and a position the array has lost
\* in the meantime is passed over
RECURSIVE forEach(_, _, _, _)
forEach(listeners, k, length, calls) ==
    IF k > length THEN [eventListeners |-> listeners, calls |-> calls]
    ELSE IF k > Len(listeners) THEN forEach(listeners, k + 1, length, calls)
    ELSE forEach(Called(listeners, listeners[k]), k + 1, length,
                 [calls EXCEPT ![listeners[k]] = @ + 1])

\* emitCoordinationEvent and emitInsightEvent: the array afterwards and how
\* often each listener was called
emit(listeners) ==
    forEach(listeners, 1, Len(listeners), [listener \in Listeners |-> 0])

\* onCoordinationEvent(listener) and onInsightEvent(listener)
onEvent(module, listener) ==
    /\ Len(eventListeners[module]) < MaxListeners
    /\ eventListeners' =
           [eventListeners EXCEPT ![module] = Append(@, listener)]
    /\ request' = NoRequest
    /\ UNCHANGED <<config, immune, apiKey, tier, initialized, heartbeatTimer,
                   syncTimer, lastSyncTime, memory,
                   tasks, taskAssignments, insights,
                   vaultSynced>>
    /\ UNCHANGED <<uuids, knowledgeBase, delivered, awaiting, registers,
                   disposed>>
    /\ UNCHANGED authVars

\* a call of the handle a registration returned
unregister(module, listener) ==
    /\ eventListeners' =
           [eventListeners EXCEPT ![module] = Unregistered(@, listener)]
    /\ request' = NoRequest
    /\ UNCHANGED <<config, immune, apiKey, tier, initialized, heartbeatTimer,
                   syncTimer, lastSyncTime, memory,
                   tasks, taskAssignments, insights,
                   vaultSynced>>
    /\ UNCHANGED <<uuids, knowledgeBase, delivered, awaiting, registers,
                   disposed>>
    /\ UNCHANGED authVars

----------------------------------------------------------------------------
(* GSNCoordinator *)

TaskNames == {"t1", "t2"}

\* the options createTask is called with: any of status and priority
TaskOptions ==
    {[f \in fs |-> o[f]] :
        fs \in SUBSET {"status", "priority"},
        o \in [status : {"completed"}, priority : {"high"}]}

\* options[f] || default
OrDefault(options, f, default) ==
    IF f \in DOMAIN options /\ options[f] # "" THEN options[f] ELSE default

\* the Task createTask builds
Task(id, name, options) ==
    [id |-> id, agentId |-> agentIdentity.id, name |-> name,
     status |-> OrDefault(options, "status", "pending"),
     priority |-> OrDefault(options, "priority", "medium")]

\* coordinator.createTask(name, description, options): the task it stores is
\* the one it returns; a 'task-created' event is emitted
createTask(name, options) ==
    LET task == Task(uuidv4, name, options)
        emitted == emit(eventListeners["coordinator"])
    IN  /\ uuids < MaxUuids
        /\ Cardinality(DOMAIN tasks) < MaxItems
        /\ tasks' = MapSet(tasks, task.id, task)
        /\ eventListeners' =
               [eventListeners EXCEPT !["coordinator"] = emitted.eventListeners]
        /\ delivered' = [type |-> "task-created", calls |-> emitted.calls]
        /\ uuids' = uuids + 1
        /\ request' = NoRequest
        /\ UNCHANGED <<config, immune, apiKey, tier, initialized,
                       heartbeatTimer, syncTimer, lastSyncTime, memory,
                       taskAssignments, insights, vaultSynced>>
        /\ UNCHANGED <<knowledgeBase, awaiting, registers, disposed>>
        /\ UNCHANGED authVars

\* the agents a task is assigned to
TargetAgents == {"agent-2"}

\* the statuses updateTaskStatus is called with
Statuses == {"in-progress", "completed"}

\* the TaskAssignment assignTask builds
Assignment(taskId, toAgentId) ==
    [taskId |-> taskId, fromAgentId |-> agentIdentity.id,
     toAgentId |-> toAgentId]

\* coordinator.getTaskAssignments(taskId)
getTaskAssignments(taskId) ==
    IF taskId \in DOMAIN taskAssignments
    THEN taskAssignments[taskId] ELSE << >>

\* what assignTask and updateTaskStatus return
assignTaskReturn(taskId) == taskId \in DOMAIN tasks

updateTaskStatusReturn(taskId) == taskId \in DOMAIN tasks

\* coordinator.assignTask(taskId, toAgentId): nothing on an unknown id; else
\* the task goes to the agent, the assignment is appended to the history of
\* the task and a 'task-assigned' event is emitted
assignTask(taskId, toAgentId) ==
    LET emitted == emit(eventListeners["coordinator"])
    IN  /\ IF taskId \notin DOMAIN tasks
           THEN UNCHANGED <<tasks, taskAssignments, eventListeners, delivered>>
           ELSE /\ Len(getTaskAssignments(taskId)) < MaxAssignments
                /\ tasks' = [tasks EXCEPT ![taskId].agentId = toAgentId,
                                          ![taskId].status = "assigned"]
                /\ taskAssignments' =
                       MapSet(taskAssignments, taskId,
                              Append(getTaskAssignments(taskId),
                                     Assignment(taskId, toAgentId)))
                /\ eventListeners' =
                       [eventListeners EXCEPT
                           !["coordinator"] = emitted.eventListeners]
                /\ delivered' =
                       [type |-> "task-assigned", calls |-> emitted.calls]
        /\ request' = NoRequest
        /\ UNCHANGED <<config, immune, apiKey, tier, initialized,
                       heartbeatTimer, syncTimer, lastSyncTime, memory,
                       insights, vaultSynced>>
        /\ UNCHANGED <<uuids, knowledgeBase, awaiting, registers, disposed>>
        /\ UNCHANGED authVars

\* variant: every status update is announced as 'task-updated'
eventTypeUpdated(status) == "task-updated"

\* the type of the event updateTaskStatus emits
eventType(status) ==
    IF status = "completed" THEN "task-completed" ELSE "task-updated"

\* coordinator.updateTaskStatus(taskId, status): nothing on an unknown id;
\* else the task gets the status and an event is emitted
updateTaskStatus(taskId, status) ==
    LET emitted == emit(eventListeners["coordinator"])
    IN  /\ IF taskId \notin DOMAIN tasks
           THEN UNCHANGED <<tasks, eventListeners, delivered>>
           ELSE /\ tasks' = [tasks EXCEPT ![taskId].status = status]
                /\ eventListeners' =
                       [eventListeners EXCEPT
                           !["coordinator"] = emitted.eventListeners]
                /\ delivered' =
                       [type |-> eventType(status), calls |-> emitted.calls]
        /\ request' = NoRequest
        /\ UNCHANGED <<config, immune, apiKey, tier, initialized,
                       heartbeatTimer, syncTimer, lastSyncTime, memory,
                       taskAssignments, insights, vaultSynced>>
        /\ UNCHANGED <<uuids, knowledgeBase, awaiting, registers, disposed>>
        /\ UNCHANGED authVars

----------------------------------------------------------------------------
(* GSNInsights *)

Titles == {"i1", "i2"}

\* the tags an insight is generated with or updated to
TagLists == {<< >>, <<"a">>, <<"b">>, <<"a", "b">>}

\* the Insight generateInsight builds
Insight(id, title, tags) ==
    [id |-> id, agentId |-> agentIdentity.id, title |-> title, tags |-> tags]

\* knowledgeBase.get(tag) || []
IdsOf(index, tag) == IF tag \in DOMAIN index THEN index[tag] ELSE << >>

\* the index after generateInsight went through the tags of the insight id
RECURSIVE Indexed(_, _, _)
Indexed(index, tags, id) ==
    IF tags = << >> THEN index
    ELSE LET ids == IdsOf(index, Head(tags))
         IN  Indexed(IF includes(ids, id) THEN index
                     ELSE MapSet(index, Head(tags), Append(ids, id)),
                     Tail(tags), id)

\* Array.prototype.filter(x => x !== id)
RECURSIVE FilterOut(_, _)
FilterOut(ids, id) ==
    IF ids = << >> THEN << >>
    ELSE IF Head(ids) = id THEN FilterOut(Tail(ids), id)
    ELSE << Head(ids) >> \o FilterOut(Tail(ids), id)

\* the index after deleteInsight went through the tags of the insight id
RECURSIVE Unindexed(_, _, _)
Unindexed(index, tags, id) ==
    IF tags = << >> THEN index
    ELSE LET filtered == FilterOut(IdsOf(index, Head(tags)), id)
         IN  Unindexed(IF Len(filtered) > 0
                       THEN MapSet(index, Head(tags), filtered)
                       ELSE MapDelete(index, Head(tags)),
                       Tail(tags), id)

\* insights.getInsight(id)
getInsight(id) == IF id \in DOMAIN insights THEN insights[id] ELSE Undefined

\* insights.getInsightsByTag(tag): the indexed ids that are still stored
RECURSIVE Stored(_)
Stored(ids) ==
    IF ids = << >> THEN << >>
    ELSE IF Head(ids) \in DOMAIN insights
    THEN << insights[Head(ids)] >> \o Stored(Tail(ids))
    ELSE Stored(Tail(ids))

getInsightsByTag(tag) == Stored(IdsOf(knowledgeBase, tag))

\* insights.getStats(): the size of the store, and for each indexed tag the
\* length of its array of ids
getStats ==
    [total |-> Cardinality(DOMAIN insights),
     byTag |-> [tag \in DOMAIN knowledgeBase |-> Len(knowledgeBase[tag])]]

\* insights.generateInsight(title, content, {tags}): the insight it stores
\* is the one it returns; an 'insight-generated' event is emitted
generateInsight(title, tags) ==
    LET insight == Insight(uuidv4, title, tags)
        emitted == emit(eventListeners["insights"])
    IN  /\ uuids < MaxUuids
        /\ Cardinality(DOMAIN insights) < MaxItems
        /\ insights' = MapSet(insights, insight.id, insight)
        /\ knowledgeBase' = Indexed(knowledgeBase, insight.tags, insight.id)
        /\ eventListeners' =
               [eventListeners EXCEPT !["insights"] = emitted.eventListeners]
        /\ delivered' =
               [type |-> "insight-generated", calls |-> emitted.calls]
        /\ uuids' = uuids + 1
        /\ request' = NoRequest
        /\ UNCHANGED <<config, immune, apiKey, tier, initialized,
                       heartbeatTimer, syncTimer, lastSyncTime, memory,
                       tasks, taskAssignments,
                       vaultSynced>>
        /\ UNCHANGED <<awaiting, registers, disposed>>
        /\ UNCHANGED authVars

\* the updates updateInsight is called with
InsightUpdates ==
    {[title |-> title] : title \in Titles}
        \cup {[tags |-> tags] : tags \in TagLists}

\* insights.updateInsight(id, updates): null for an id that is not stored;
\* else the merged insight is stored and a 'knowledge-updated' event emitted
updateInsight(id, updates) ==
    LET emitted == emit(eventListeners["insights"])
    IN  /\ IF id \in DOMAIN insights
           THEN /\ insights' = MapSet(insights, id, Merge(insights[id], updates))
                /\ eventListeners' =
                       [eventListeners EXCEPT
                           !["insights"] = emitted.eventListeners]
                /\ delivered' =
                       [type |-> "knowledge-updated", calls |-> emitted.calls]
           ELSE UNCHANGED <<insights, eventListeners, delivered>>
        /\ request' = NoRequest
        /\ UNCHANGED <<config, immune, apiKey, tier, initialized,
                       heartbeatTimer, syncTimer, lastSyncTime, memory,
                       tasks, taskAssignments,
                       vaultSynced>>
        /\ UNCHANGED <<uuids, knowledgeBase, awaiting, registers, disposed>>
        /\ UNCHANGED authVars

\* insights.deleteInsight(id): false for an id that is not stored
deleteInsight(id) ==
    /\ IF id \in DOMAIN insights
       THEN /\ knowledgeBase' = Unindexed(knowledgeBase, insights[id].tags, id)
            /\ insights' = MapDelete(insights, id)
       ELSE UNCHANGED <<insights, knowledgeBase>>
    /\ request' = NoRequest
    /\ UNCHANGED <<config, immune, apiKey, tier, initialized, heartbeatTimer,
                   syncTimer, lastSyncTime, memory,
                   tasks, taskAssignments, vaultSynced>>
    /\ UNCHANGED <<uuids, eventListeners, delivered, awaiting, registers,
                   disposed>>
    /\ UNCHANGED authVars

\* addKnowledge(title, content, tags): an immune connector keeps the entry
\* as an insight of its own
addKnowledge(title, tags) ==
    IF immune
    THEN generateInsight(title, tags)
    ELSE /\ request' = [path |-> "/api/knowledge/add"]
         /\ UNCHANGED <<config, immune, apiKey, tier, initialized,
                        heartbeatTimer, syncTimer, lastSyncTime, memory,
                        tasks, taskAssignments,
                        insights, vaultSynced>>
         /\ UNCHANGED moduleVars
         /\ UNCHANGED authVars

\* GSNConnector.dispose(): timers cleared, the four modules disposed of; an
\* init() that awaits its registration is not told
connectorDispose ==
    /\ heartbeatTimer' = FALSE
    /\ syncTimer' = FALSE
    /\ memory' = [Stopped(memory) EXCEPT !.contextSnippets = << >>]
    /\ tasks' = << >>
    /\ taskAssignments' = << >>
    /\ eventListeners' = [coordinator |-> << >>, insights |-> << >>]
    /\ insights' = << >>
    /\ knowledgeBase' = << >>
    /\ issuedTokens' = << >>
    /\ revokedTokens' = {}
    /\ initialized' = FALSE
    /\ request' = NoRequest
    /\ registers' = 0
    /\ disposed' = TRUE
    /\ UNCHANGED <<config, immune, apiKey, tier, lastSyncTime, vaultSynced>>
    /\ UNCHANGED <<uuids, delivered, awaiting>>
    /\ UNCHANGED <<secretKey, tokenExpiry, allowedAgents, now, everRevoked,
                   everIssued, peer>>

\* a connector and the calls made on it and on its modules, each with one
\* input, and a platform that answers every request with a JSON body
NextConnector ==
    \/ init
    \/ initResume
    \/ sync("json")
    \/ heartbeat
    \/ HeartbeatTick
    \/ SyncTick("json")
    \/ addKnowledge("i2", <<"b">>)
    \/ sendMessage("json")
    \/ addSnippet("c1")
    \/ createTask("t1", << >>)
    \/ generateInsight("i1", <<"a">>)
    \/ startAutoSync
    \/ syncWithSharedVault
    \/ MemoryTick
    \/ connectorDispose

SpecConnector == InitConnector /\ [][NextConnector]_vars

\* a connector and a platform whose answers may fail
Sync == \E outcome \in Outcomes : sync(outcome)

SyncTicks == \E outcome \in Outcomes : SyncTick(outcome)

SendMessage == \E outcome \in Outcomes : sendMessage(outcome)

NextPlatform ==
    \/ init
    \/ initResume
    \/ Sync
    \/ SyncTicks
    \/ heartbeat
    \/ HeartbeatTick
    \/ SendMessage
    \/ connectorDispose

SpecPlatform == InitConnector /\ [][NextPlatform]_vars

\* the GSNMemory of a connector constructed without options, and the calls
\* made on it; it is disposed of when the connector is
AddSnippet == \E content \in Contents : addSnippet(content)

UpdateSnippet ==
    \E id \in Ids, updates \in SnippetUpdates : updateSnippet(id, updates)

DeleteSnippet == \E id \in Ids : deleteSnippet(id)

NextMemory ==
    \/ AddSnippet
    \/ UpdateSnippet
    \/ DeleteSnippet
    \/ startAutoSync
    \/ syncWithSharedVault
    \/ MemoryTick
    \/ connectorDispose

SpecMemory == InitDefault /\ [][NextMemory]_vars

\* the GSNMemory of a connector constructed with any flags, and its
\* auto-sync
NextAutoSync ==
    \/ startAutoSync
    \/ stopAutoSync
    \/ syncWithSharedVault
    \/ MemoryTick
    \/ addSnippet("c1")
    \/ connectorDispose

SpecAutoSync == InitConnector /\ [][NextAutoSync]_vars

\* the GSNCoordinator of that connector, its listeners and the calls made on
\* it
CreateTask ==
    \E name \in TaskNames, options \in TaskOptions : createTask(name, options)

OnCoordinationEvent ==
    \E listener \in Listeners : onEvent("coordinator", listener)

UnregisterCoordination ==
    \E listener \in Listeners : unregister("coordinator", listener)

NextCoordinator ==
    \/ CreateTask
    \/ OnCoordinationEvent
    \/ UnregisterCoordination
    \/ connectorDispose

SpecCoordinator == InitDefault /\ [][NextCoordinator]_vars

\* the tasks of that GSNCoordinator: created with one input, assigned and
\* updated, by known and unknown ids, with a listener registered
AssignTask ==
    \E taskId \in Ids, toAgentId \in TargetAgents :
        assignTask(taskId, toAgentId)

UpdateTaskStatus ==
    \E taskId \in Ids, status \in Statuses : updateTaskStatus(taskId, status)

NextTasks ==
    \/ createTask("t1", << >>)
    \/ AssignTask
    \/ UpdateTaskStatus
    \/ onEvent("coordinator", "plain")
    \/ connectorDispose

SpecTasks == InitDefault /\ [][NextTasks]_vars

\* the events of the GSNCoordinator and the GSNInsights of that connector,
\* each emitted by a call with one input, and their listeners: any on the
\* coordinator, two on the insights
OnInsightEvent ==
    \E listener \in {"plain", "once"} : onEvent("insights", listener)

NextEvents ==
    \/ createTask("t1", << >>)
    \/ assignTask(1, "agent-2")
    \/ updateTaskStatus(1, "completed")
    \/ generateInsight("i1", <<"a">>)
    \/ OnCoordinationEvent
    \/ UnregisterCoordination
    \/ OnInsightEvent
    \/ connectorDispose

SpecEvents == InitDefault /\ [][NextEvents]_vars

\* the GSNInsights of that connector and the calls made on it
GenerateInsight ==
    \E title \in Titles, tags \in TagLists : generateInsight(title, tags)

UpdateInsight ==
    \E id \in Ids, updates \in InsightUpdates : updateInsight(id, updates)

DeleteInsight == \E id \in Ids : deleteInsight(id)

NextInsights ==
    \/ GenerateInsight
    \/ UpdateInsight
    \/ DeleteInsight
    \/ connectorDispose

SpecInsights == InitDefault /\ [][NextInsights]_vars

----------------------------------------------------------------------------
(* Properties *)

\* now lies in the validity window of tok, both ends included
InWindow(tok) == tok.issuedAt.n <= now /\ now <= tok.expiresAt.n

\* the object a minted string's payload decodes to
PayloadOf(s) == Parse(FromBase64Url(Split(s)[1])).v

\* C1: a string that was passed to revokeToken is rejected by validateToken
\* in every later state of an Authority that is not disposed, whatever was
\* issued, validated, revoked or swept and wherever the clock went since
C1_RevokedStaysRejected ==
    \A s \in everRevoked : validateToken(s) = JsNull

\* C1 case: a revoked string that was issued again, is cached and is inside
\* its validity window
C1_Witness ==
    \E s \in everRevoked :
        /\ s \in DOMAIN issuedTokens
        /\ InWindow(issuedTokens[s])
        /\ validateToken(s) = JsNull

\* C2: no operation removes a string from revokedTokens
C2_RevocationPermanent == [][revokedTokens \subseteq revokedTokens']_vars

\* C3: the token generateToken returns validates right away, to a Credential
\* equal to the one returned
C3_RoundTrip ==
    [][\A scope \in Scopes, t2 \in Instants :
          \A token \in {TokenFor(scope, t2)} :
              generateToken(scope, t2)
                  => (validateToken(token.token) = token)']_vars

\* C4: the string a generateToken call returns is none an earlier call
\* returned: in every state, whatever scope is asked for next and whether or
\* not the clock moves during the call
C4_DistinctStrings ==
    \A scope \in Scopes, t2 \in SecondReadings :
        TokenFor(scope, t2).token \notin everIssued

\* C5: once a string issued for a scope is revoked, a token issued afterwards
\* for that scope validates right after its issuance
C5_ReissueValidates ==
    [][\A scope \in Scopes, t2 \in Instants :
          \A token \in {TokenFor(scope, t2)} :
              /\ generateToken(scope, t2)
              /\ \E s \in everRevoked \cap everIssued :
                     PayloadOf(s).scope = Str(scope)
              => (validateToken(token.token) # JsNull)']_vars

\* strings signed under the local secret by an Authority that minted them:
\* those this Authority issued, and those of an Authority sharing its secret
LocallySignedStrings ==
    KnownStrings
        \cup {ForeignToken(secretKey, sc, t).token : sc \in Scopes, t \in {0, 1}}

\* C6: a non-revoked, correctly signed token is accepted exactly when
\* issuedAt <= now <= expiresAt, whether it is cached or verified as a
\* foreign string
C6_ExpiryBoundary ==
    \A s \in LocallySignedStrings \ revokedTokens :
        (validateToken(s) # JsNull) <=> InWindow(PayloadOf(s))

\* C6 case: the clock reads exactly expiresAt of a cached token and of a
\* foreign one, and both are accepted
C6_Witness ==
    /\ \E s \in DOMAIN issuedTokens :
          /\ now = issuedTokens[s].expiresAt.n
          /\ validateToken(s) # JsNull
    /\ \E s \in LocallySignedStrings \ KnownStrings :
          /\ now = PayloadOf(s).expiresAt.n
          /\ validateToken(s) # JsNull

\* C7: a token minted by another Authority, inside its validity window and
\* never seen here, validates to that very token when the minting Authority
\* shares the local secret, and is rejected when it does not
C7_ForeignVerification ==
    \A k \in ForeignSecrets, sc \in Scopes, t \in {0, 1} :
        \A token \in {ForeignToken(k, sc, t)} :
            InWindow(token) /\ token.token \notin KnownStrings
                => validateToken(token.token) =
                       IF k = secretKey THEN token ELSE JsNull

\* C7 case: inside the window of the tokens minted at 1 ms, the one under the
\* shared secret is accepted and the one under the other secret rejected
C7_Witness ==
    /\ now = 1
    /\ validateToken(ForeignToken(secretKey, "admin", 1).token) # JsNull
    /\ validateToken(ForeignToken("S2", "admin", 1).token) = JsNull

\* C8: replacing one character of the signature part of an accepted string
\* by a different character gives a string that is rejected
C8_TamperDetection ==
    \A s \in TamperSeeds :
        validateToken(s) # JsNull
            => \A x \in Tampered(s) : validateToken(x) = JsNull

\* C8 case: an issued string and a foreign string are accepted, and each has
\* tampered variants
C8_Witness ==
    /\ \E s \in DOMAIN issuedTokens :
          validateToken(s) # JsNull /\ Tampered(s) # {}
    /\ \E s \in TamperSeeds \ KnownStrings :
          validateToken(s) # JsNull /\ Tampered(s) # {}

\* the required fields of a Credential hold values of their types
WellTyped(token) ==
    /\ token.agentId.t = "string"
    /\ token.scope \in {Str(sc) : sc \in Scopes}
    /\ token.issuedAt.t = "number"
    /\ token.expiresAt.t = "number"

\* C9: a string signed under the local secret whose payload lacks a required
\* field or holds a mistyped one is rejected, and no Credential validateToken
\* returns has an absent or mistyped required field
C9_RejectsDefectivePayload ==
    /\ \A d \in DefectiveData :
          validateToken(Signed(secretKey, ToBase64Url(Stringify(d)))) = JsNull
    /\ \A s \in MintedInputs \cup ForgedInputs :
          validateToken(s) # JsNull => WellTyped(validateToken(s))

\* C10: validateToken returns null for every revoked string, every minted
\* string outside its validity window, every string that is not two parts,
\* every string with a bad signature and every string whose payload is no
\* JSON, null or no object
C10_UniformRejection ==
    \A s \in revokedTokens
              \cup {x \in MintedInputs : ~InWindow(PayloadOf(x))}
              \cup MisshapenStrings
              \cup UNION {Tampered(x) : x \in TamperSeeds}
              \cup {Signed(k, ToBase64Url(t)) :
                       k \in {secretKey, "S2"}, t \in NonObjectTexts} :
        validateToken(s) = JsNull

\* C11: every Credential in issuedTokens has issuedAt < expiresAt, whatever
\* tokenExpiry the constructor was given
C11_WindowNotEmpty ==
    \A s \in DOMAIN issuedTokens :
        issuedTokens[s].issuedAt.n < issuedTokens[s].expiresAt.n

\* C12: every Credential in issuedTokens has
\* expiresAt = issuedAt + tokenExpiry * 1000 exactly
C12_ExactExpiry ==
    \A s \in DOMAIN issuedTokens :
        issuedTokens[s].expiresAt.n =
            issuedTokens[s].issuedAt.n + tokenExpiry * 1000

\* C13: revokeToken returns true for every string; after it the string is
\* in revokedTokens, absent from issuedTokens and rejected by validateToken;
\* called on a string in the state a revokeToken of it leaves, it changes
\* neither issuedTokens nor revokedTokens
C13_RevokeIdempotent ==
    [][\A s \in RevokeInputs :
          revokeToken(s)
              => /\ revokeTokenReturn(s)
                 /\ s \in revokedTokens'
                 /\ s \notin DOMAIN issuedTokens'
                 /\ (validateToken(s) = JsNull)'
                 /\ (s \in revokedTokens /\ s \notin DOMAIN issuedTokens
                        => /\ issuedTokens' = issuedTokens
                           /\ revokedTokens' = revokedTokens)]_vars

\* C13 case: a string this Authority issued is revoked while inside its
\* validity window; it is gone from the cache and rejected
C13_Witness ==
    \E s \in revokedTokens \cap everIssued :
        /\ s \notin DOMAIN issuedTokens
        /\ InWindow(PayloadOf(s))
        /\ validateToken(s) = JsNull

Expired(s) == now > PayloadOf(s).expiresAt.n

\* C15 as stated: a string validateToken rejects because the clock passed
\* its expiresAt is rejected in the next state too, whatever step is taken:
\* an issue, a revocation, a sweep, a dispose or any change of the clock
C15_ExpiredIsTerminal ==
    [][\A s \in LocallySignedStrings :
          Expired(s) /\ validateToken(s) = JsNull
              => (validateToken(s) = JsNull)']_vars

\* C15 amended: in every state an Authority reaches through issues,
\* revocations, sweeps, disposes and changes of the clock, a string whose
\* expiresAt the clock has passed is rejected: the rejection lasts for as
\* long as the clock does not go back to expiresAt or before
C15_ExpiredStaysRejected ==
    \A s \in LocallySignedStrings : Expired(s) => validateToken(s) = JsNull

\* C15 case: an issued string is past its expiresAt and rejected after a
\* revocation was made and the Authority was disposed of (both caches are
\* empty again)
C15_Witness ==
    /\ DOMAIN issuedTokens = {}
    /\ revokedTokens = {}
    /\ everRevoked # {}
    /\ \E s \in everIssued : Expired(s) /\ validateToken(s) = JsNull

\* C16: the Credential generateToken returns next, for every scope, every
\* Credential in issuedTokens and the payload of every string issued so far
\* name the agent the Authority was constructed for
C16_OwnIdentityOnly ==
    /\ \A scope \in Scopes, t2 \in SecondReadings :
          /\ TokenFor(scope, t2).agentId = Str(agentIdentity.id)
          /\ PayloadOf(TokenFor(scope, t2).token).agentId =
                 Str(agentIdentity.id)
    /\ \A s \in DOMAIN issuedTokens :
          issuedTokens[s].agentId = Str(agentIdentity.id)
    /\ \A s \in everIssued : PayloadOf(s).agentId = Str(agentIdentity.id)

\* C16 case: after a dispose, with the clock moved on, a token issued for
\* the admin scope is cached and names the Authority's agent
C16_Witness ==
    /\ now > 0
    /\ everRevoked # {}
    /\ revokedTokens = {}
    /\ \E s \in DOMAIN issuedTokens :
          /\ issuedTokens[s].scope = Str("admin")
          /\ PayloadOf(s).agentId = Str(agentIdentity.id)

\* C17: on either Authority and for every agent id, isAgentAllowed is true
\* exactly when the allow-list is empty, holds the id or holds the wildcard
C17_AllowList ==
    \A auth \in {this, peer}, agentId \in AgentIds :
        isAgentAllowedOn(auth, agentId)
            <=> \/ auth.allowedAgents = << >>
                \/ \E i \in DOMAIN auth.allowedAgents :
                       auth.allowedAgents[i] \in {agentId, "*"}

\* C17 case: an Authority whose list holds only the wildcard allows an
\* agent that the list of the other Authority, which is not empty, excludes
C17_Witness ==
    /\ allowedAgents = <<"*">>
    /\ isAgentAllowed(ForeignAgent)
    /\ peer.allowedAgents # << >>
    /\ ~isAgentAllowedOn(peer, ForeignAgent)
    /\ DOMAIN issuedTokens # {}

\* C18: two Authorities that differ only in their allow-lists and went
\* through the same calls at the same clock readings return the same result
\* for every string presented to validateToken
C18_AllowListIgnored ==
    \A s \in MintedInputs \cup CraftedStrings :
        validateToken(s) = validateTokenOn(peer, s)

\* C18 case: after an issue and a revocation, both Authorities accept a token
\* of an agent that the allow-list of one of them excludes and that of the
\* other admits
C18_Witness ==
    /\ DOMAIN issuedTokens # {}
    /\ revokedTokens # {}
    /\ ~isAgentAllowed(ForeignAgent)
    /\ isAgentAllowedOn(peer, ForeignAgent)
    /\ \E token \in ForeignTokens :
          /\ validateToken(token.token) = token
          /\ validateTokenOn(peer, token.token) = token

\* C19: on an immune connector, whatever step is taken, a sync request
\* carries no snippet, task or insight, no knowledge entry is sent to the
\* platform, the GSNMemory has neither synced with the vault nor an interval
\* to do so, and addKnowledge sends nothing and stores the entry as an
\* insight of the connector
C19_ImmuneKeepsData ==
    [][immune
          => /\ (request.path = "/api/connector/sync"
                    => /\ request.snippets = << >>
                       /\ request.tasks = << >>
                       /\ request.insights = << >>)'
             /\ (request.path # "/api/knowledge/add")'
             /\ (~vaultSynced /\ memory.intervals = {})'
             /\ \A title \in Titles, tags \in TagLists :
                    addKnowledge(title, tags)
                        => /\ request' = NoRequest
                           /\ insights' =
                                  MapSet(insights, uuidv4,
                                         Insight(uuidv4, title, tags))]_vars

\* C19 case: an immune connector that holds a snippet, a task and an insight
\* has just sent a sync request
C19_Witness ==
    /\ immune
    /\ DOMAIN memory.contextSnippets # {}
    /\ DOMAIN tasks # {}
    /\ DOMAIN insights # {}
    /\ request.path = "/api/connector/sync"

\* C20: an immune connector has sent no registration and no heartbeat, and
\* neither of its timers is set, whatever its other flags
C20_ImmuneSendsNothing ==
    immune
        => /\ request.path \notin {"/api/connector/register",
                                   "/api/connector/heartbeat"}
           /\ ~heartbeatTimer
           /\ ~syncTimer

\* C21: once dispose() has returned, and until init() is called again,
\* neither the heartbeat timer nor the auto-sync timer of the connector is
\* set, whatever call was in progress when dispose() ran
C21_NoTimerAfterDispose == disposed => ~heartbeatTimer /\ ~syncTimer

\* C30: between construction or the latest dispose() and the next dispose(),
\* the connector has sent at most one registration, however many init()
\* calls were made and whether or not they overlap
C30_RegistersOnce == registers <= 1

\* C22: the snippet addSnippet returns has an id no earlier call returned,
\* is what getSnippet of that id returns right after the call, and leaves
\* every snippet held before as it was; and a held snippet keeps its content
\* under getSnippet through every step that is not a delete or an update of
\* its id or a dispose
C22_SnippetRetrievable ==
    [][/\ \A content \in Contents, id \in {uuidv4} :
              addSnippet(content)
                  => /\ id \notin 1..uuids
                     /\ getSnippet(id)' = Snippet(id, content)
                     /\ \A other \in DOMAIN memory.contextSnippets :
                            getSnippet(other)' = getSnippet(other)
       /\ \A id \in DOMAIN memory.contextSnippets :
              \/ deleteSnippet(id)
              \/ \E updates \in SnippetUpdates : updateSnippet(id, updates)
              \/ connectorDispose
              \/ /\ getSnippet(id)' # Undefined
                 /\ getSnippet(id)'.content = getSnippet(id).content]_vars

\* C22 case: two snippets of different contents are held under different
\* ids, after a third was added and deleted
C22_Witness ==
    /\ uuids = 3
    /\ \E id, other \in DOMAIN memory.contextSnippets :
          /\ id # other
          /\ getSnippet(id).content # getSnippet(other).content
          /\ getSnippet(id).id = id

\* how many registrations of the listener the array holds
Registered(listeners, listener) ==
    Cardinality({i \in 1..Len(listeners) : listeners[i] = listener})

\* C23: createTask stores under a new id the task it returns: the name it
\* was given, the agent id of the coordinator, the status and the priority
\* of the options or 'pending' and 'medium'; and it calls every listener
\* once for each registration the listener has when createTask is called
C23_CreateTask ==
    [][\A name \in TaskNames, options \in TaskOptions, id \in {uuidv4} :
          createTask(name, options)
              => /\ id \notin DOMAIN tasks
                 /\ tasks'[id].name = name
                 /\ tasks'[id].agentId = agentIdentity.id
                 /\ tasks'[id].status =
                        (IF "status" \in DOMAIN options
                         THEN options["status"] ELSE "pending")
                 /\ tasks'[id].priority =
                        (IF "priority" \in DOMAIN options
                         THEN options["priority"] ELSE "medium")
                 /\ \A listener \in Listeners :
                        delivered'.calls[listener] =
                            Registered(eventListeners["coordinator"],
                                       listener)]_vars

\* C24: an insight that was generated and neither deleted nor disposed of
\* since is what getInsight returns for its id, and getInsightsByTag lists
\* it for each of its tags
C24_InsightListed ==
    \A id \in DOMAIN insights :
        /\ getInsight(id).id = id
        /\ \A i \in 1..Len(getInsight(id).tags) :
               includes(getInsightsByTag(getInsight(id).tags[i]),
                        getInsight(id))

\* a <= b between two numbers; false when a side is no number
NumLeq(a, b) ==
    LET x == ToNumber(a)
        y == ToNumber(b)
    IN  IF x.nan \/ y.nan THEN FALSE ELSE x.n <= y.n

\* issuedAt <= now <= expiresAt for the timestamps of a Credential or of a
\* decoded payload
WindowHolds(issuedAt, expiresAt) ==
    NumLeq(issuedAt, Num(now)) /\ NumLeq(Num(now), expiresAt)

\* C25: validateToken returns a Credential for a string exactly when the
\* string is not revoked and either is cached with issuedAt <= now <=
\* expiresAt, or is not cached, has two parts, carries the digest of its
\* payload under the local secret, and has a payload that decodes to
\* timestamps with issuedAt <= now <= expiresAt
C25_ValidateCharacterised ==
    \A s \in MintedInputs \cup ForgedInputs :
        validateToken(s) # JsNull
            <=> /\ s \notin revokedTokens
                /\ \/ /\ s \in DOMAIN issuedTokens
                      /\ WindowHolds(issuedTokens[s].issuedAt,
                                     issuedTokens[s].expiresAt)
                   \/ /\ s \notin DOMAIN issuedTokens
                      /\ Len(Split(s)) = 2
                      /\ Split(s)[2] = Hmac(secretKey, Split(s)[1])
                      /\ Parse(FromBase64Url(Split(s)[1])).ok
                      /\ \A v \in {Parse(FromBase64Url(Split(s)[1])).v} :
                             WindowHolds(Prop(v, "issuedAt"),
                                         Prop(v, "expiresAt"))

C27_ValidateReadOnly ==
    [][\/ UNCHANGED <<issuedTokens, revokedTokens, secretKey, tokenExpiry,
                      allowedAgents>>
       \/ \A s \in MintedInputs \cup ForgedInputs : ~validateTokenCall(s)]_vars

\* C27 case: validateToken accepts a token of another Authority that is not
\* in issuedTokens, and rejects as expired a token that still is
C27_Witness ==
    /\ \E token \in ForeignTokens :
          /\ token.token \notin DOMAIN issuedTokens
          /\ validateToken(token.token) = token
    /\ \E s \in DOMAIN issuedTokens :
          /\ s \notin revokedTokens
          /\ JsLess(issuedTokens[s].expiresAt, Num(now))
          /\ validateToken(s) = JsNull

\* C28: no bearer string is a key of issuedTokens and a member of
\* revokedTokens at the same time
C28_CachesDisjoint == DOMAIN issuedTokens \cap revokedTokens = {}

\* C29: every entry of issuedTokens is a Credential whose token field is its
\* key, whose agentId is the id of the Authority's agent, and whose key is
\* the payload encoding its agentId, scope, issuedAt and expiresAt, a
\* separator, and the digest of that payload under the secret
C29_EntriesWellFormed ==
    \A k \in DOMAIN issuedTokens :
        /\ issuedTokens[k].token = k
        /\ issuedTokens[k].agentId = Str(agentIdentity.id)
        /\ k = Signed(secretKey,
                      ToBase64Url(Stringify(Obj(issuedTokens[k].agentId,
                                                issuedTokens[k].scope,
                                                issuedTokens[k].issuedAt,
                                                issuedTokens[k].expiresAt))))

\* C29 case: after a revocation, the cache holds a token issued while the
\* clock moved on between the two readings of generateToken
C29_Witness ==
    /\ everRevoked # {}
    /\ \E k \in DOMAIN issuedTokens :
          issuedTokens[k].expiresAt.n =
              issuedTokens[k].issuedAt.n + tokenExpiry * 1000 + 1

\* C31: a sync that did not succeed (the request failed on the network, the
\* platform answered with an HTTP error, or its body was no JSON) leaves
\* lastSyncTime, and so the pullSince of the next sync, as it was
C31_FailedSyncKeepsTime ==
    [][\A outcome \in Outcomes \ {"json"} :
          sync(outcome) => lastSyncTime' = lastSyncTime]_vars

\* C32: the promise of every request made through the platform client
\* resolves: with {success: false, error} unless the platform answered with
\* a 2xx status and a JSON body
C32_RequestsSettle ==
    "answer" \in DOMAIN request
        => /\ request.answer.settled = "resolved"
           /\ request.answer # post("json")
                  => /\ request.answer.value.success = FALSE
                     /\ "error" \in DOMAIN request.answer.value

\* C35: a GSNMemory never has more than one auto-sync interval running;
\* after stopAutoSync and after dispose it has none; after startAutoSync it
\* has one when autoSync and syncWithVault are both on, and none otherwise
C35_OneInterval ==
    /\ [](Cardinality(memory.intervals) <= 1)
    /\ [][stopAutoSync \/ connectorDispose
              => memory'.intervals = {}]_vars
    /\ [][startAutoSync
              => Cardinality(memory'.intervals) =
                     IF memory.autoSync /\ memory.syncWithVault
                     THEN 1 ELSE 0]_vars

\* C35 case: the interval of a started auto-sync has run its callback, and
\* the GSNMemory holds its handle
C35_Witness ==
    /\ memory.syncInterval # 0
    /\ memory.syncInterval \in memory.intervals
    /\ vaultSynced

\* C36: assignTask and updateTaskStatus on an unknown task id return false,
\* leave the tasks and the assignment histories as they are and emit no
\* event; on a known id assignTask returns true, gives the task the target
\* agent and the status 'assigned', appends one assignment record to the
\* history of that task only and emits a 'task-assigned' event, and
\* updateTaskStatus sets the status and emits a 'task-completed' event for
\* the status 'completed' and a 'task-updated' event for any other
C36_TaskOperations ==
    [][/\ \A taskId \in Ids, toAgentId \in TargetAgents :
              assignTask(taskId, toAgentId)
                  => IF taskId \notin DOMAIN tasks
                     THEN /\ ~assignTaskReturn(taskId)
                          /\ UNCHANGED <<tasks, taskAssignments, delivered>>
                     ELSE /\ assignTaskReturn(taskId)
                          /\ tasks'[taskId].agentId = toAgentId
                          /\ tasks'[taskId].status = "assigned"
                          /\ DOMAIN tasks' = DOMAIN tasks
                          /\ \A other \in DOMAIN tasks \ {taskId} :
                                 /\ tasks'[other] = tasks[other]
                                 /\ getTaskAssignments(other)' =
                                        getTaskAssignments(other)
                          /\ getTaskAssignments(taskId)' =
                                 Append(getTaskAssignments(taskId),
                                        [taskId |-> taskId,
                                         fromAgentId |-> agentIdentity.id,
                                         toAgentId |-> toAgentId])
                          /\ delivered'.type = "task-assigned"
       /\ \A taskId \in Ids, status \in Statuses :
              updateTaskStatus(taskId, status)
                  => IF taskId \notin DOMAIN tasks
                     THEN /\ ~updateTaskStatusReturn(taskId)
                          /\ UNCHANGED <<tasks, taskAssignments, delivered>>
                     ELSE /\ updateTaskStatusReturn(taskId)
                          /\ tasks'[taskId].status = status
                          /\ UNCHANGED taskAssignments
                          /\ delivered'.type =
                                 IF status = "completed"
                                 THEN "task-completed" ELSE "task-updated"]_vars

\* C36 case: a task was assigned twice and then completed, and another task
\* is stored that was never assigned
C36_Witness ==
    \E taskId \in DOMAIN tasks, other \in DOMAIN tasks :
        /\ Len(getTaskAssignments(taskId)) = 2
        /\ tasks[taskId].status = "completed"
        /\ delivered.type = "task-completed"
        /\ getTaskAssignments(other) = << >>

\* C33: the emission of a coordination event or an insight event calls
\* every listener once for each registration it has in the array of the
\* module when the event is emitted, whatever the listeners do when called
\* (return, throw, call their own unregister handle or that of another), so
\* a listener whose registrations were all unregistered is not called
C33_DeliveredOnce ==
    [][\A listener \in Listeners :
          /\ (\/ createTask("t1", << >>)
              \/ (1 \in DOMAIN tasks /\ assignTask(1, "agent-2"))
              \/ (1 \in DOMAIN tasks /\ updateTaskStatus(1, "completed")))
                 => delivered'.calls[listener] =
                        Registered(eventListeners["coordinator"], listener)
          /\ generateInsight("i1", <<"a">>)
                 => delivered'.calls[listener] =
                        Registered(eventListeners["insights"], listener)]_vars

\* C34: for every tag, the ids knowledgeBase lists under the tag are, each
\* once, the ids of the stored insights whose tags contain it; so
\* getInsightsByTag returns those insights and getStats().byTag counts them
C34_IndexAgrees ==
    \A tags \in TagLists :
        \A i \in 1..Len(tags) :
            LET tag == tags[i]
                ids == IdsOf(knowledgeBase, tag)
                tagged == {id \in DOMAIN insights :
                              includes(insights[id].tags, tag)}
                listed == getInsightsByTag(tag)
            IN  /\ {ids[k] : k \in 1..Len(ids)} = tagged
                /\ Len(ids) = Cardinality(tagged)
                /\ {listed[k] : k \in 1..Len(listed)} =
                       {insights[id] : id \in tagged}
                /\ Cardinality(tagged) =
                       IF tag \in DOMAIN getStats.byTag
                       THEN getStats.byTag[tag] ELSE 0

====
